---- MODULE Spec2Model ----
(***************************************************************************)
(* Campaign state machine and delivery worker of the bulk email engine     *)
(* (src/routes/campaigns.py), over the persistence layer configured in     *)
(* src/database.py.                                                        *)
(*                                                                         *)
(* One campaign is modelled (campaigns are independent of each other: no   *)
(* handler touches two campaigns).  The campaign row is `db`; each         *)
(* delivery worker (one run of send_campaign_emails) owns a session whose  *)
(* identity map holds its own copy of the row.  The session factory is     *)
(* built with expire_on_commit=False (src/database.py:30-34), so the copy  *)
(* loaded by the first db.get of a worker is never expired: every later    *)
(* db.get(Campaign, campaign_id) of that worker returns the copy, and a    *)
(* commit writes the columns whose value differs from the value the copy   *)
(* had at its last commit.                                                 *)
(*                                                                         *)
(* The HTTP handlers (create, update, delete, pause, resume) are short     *)
(* get/commit transactions and are one action each.  The worker is split   *)
(* at its suspension points: the task start with its first db.get, the     *)
(* outbound send with the commit that follows it, and the final commit.    *)
(***************************************************************************)
EXTENDS Integers, Sequences, FiniteSets, Bags, TLC

(* ---- bounds ---- *)
MaxRows == 2
MaxLaunches == 2

(* ---- CampaignStatus, src/models/email.py:6-12 ---- *)
DRAFT == "draft"
SENDING == "sending"
PAUSED == "paused"
COMPLETED == "completed"
FAILED == "failed"
CANCELLED == "cancelled"
CampaignStatus == {DRAFT, SENDING, PAUSED, COMPLETED, FAILED, CANCELLED}

NoCampaign == [status |-> "none"]

VARIABLES
    created,    \* create_campaign has inserted the campaign (its id is issued)
    db,         \* the persisted campaign row, NoCampaign when absent
    rows,       \* upload.processed_data['rows'] of the campaign's upload
    workers,    \* bag of the background tasks running send_campaign_emails
    launched,   \* number of background tasks added so far
    response,   \* the answer of the last HTTP handler call
    email_logs  \* the persisted EmailLog rows of the campaign, oldest first

campaignVars ==
    <<created, db, rows, workers, launched, response, email_logs>>

(* State of the abuse-control shell (src/services/rate_limit_service.py,   *)
(* src/routes/submissions.py, src/routes/auth.py).                         *)
VARIABLES
    now,                   \* the clock of the ephemeral store, in seconds
    redis_client,          \* RateLimitService.redis_client is set
    rate_limits,           \* RateLimitService.rate_limits, per limit type
    suspicious_thresholds, \* RateLimitService.suspicious_thresholds
    redis,                 \* the keys of the ephemeral store
    calls,                 \* number of requests handled so far
    guard,                 \* the last request: the guards' results, the answer
    in_flight              \* is_rate_limited calls under way, per caller

guardVars ==
    <<now, redis_client, rate_limits, suspicious_thresholds, redis, calls,
      guard, in_flight>>

(* State of the email verification engine                                  *)
(* (src/services/verification_service.py).                                 *)
VARIABLES
    verifier,   \* EmailVerificationService: store handle, cache, clock
    lookups,    \* number of MX lookups performed so far
    verified    \* the last call and what it returned

verifyVars == <<verifier, lookups, verified>>

(* The provider selection of EmailService (src/services/email_service.py). *)
VARIABLES
    email_service,  \* EmailService: EMAIL_SERVICE mode, gmail_service set
    chosen,         \* the last _choose_provider call and its result
    send_call       \* the last send_email call and what came of it

providerVars == <<email_service, chosen, send_call>>

vars == <<campaignVars, guardVars, verifyVars, providerVars>>

(* The parts of the state a specification does not move rest at these      *)
(* values.                                                                 *)
GuardIdle ==
    /\ now = 0
    /\ redis_client = FALSE
    /\ rate_limits = << >>
    /\ suspicious_thresholds = << >>
    /\ redis = << >>
    /\ calls = 0
    /\ guard = << >>
    /\ in_flight = << >>

VerifyIdle ==
    /\ verifier = << >>
    /\ lookups = << >>
    /\ verified = << >>

ProviderIdle ==
    /\ email_service = << >>
    /\ chosen = << >>
    /\ send_call = << >>

CampaignIdle ==
    /\ created = FALSE
    /\ db = [status |-> "none"]
    /\ rows = <<>>
    /\ workers = EmptyBag
    /\ launched = 0
    /\ response = [op |-> "none", code |-> 0]
    /\ email_logs = << >>

(* Recipient rows of an upload: the valid flag of upload ingestion and     *)
(* whether the template renders for the row's data.                        *)
RowKinds ==
    { [valid |-> TRUE, renders |-> TRUE],
      [valid |-> TRUE, renders |-> FALSE],
      [valid |-> FALSE, renders |-> TRUE] }

RowSeqs == UNION { [1..n -> RowKinds] : n \in 0..MaxRows }

(* valid_rows = [row for row in rows if row.get('valid', True)]; every row  *)
(* of an upload carries the flag (src/services/file_service.py:296).       *)
IsValidAlways(row) == TRUE
IsValid(row) == row.valid
ValidRows(rs) == SelectSeq(rs, LAMBDA r : IsValid(r))

(* delivery_rate as the exact fraction <<numerator, denominator>> of       *)
(* sent_count / total_emails * 100, and 0 when total_emails = 0.           *)
DeliveryRate(sent, total) ==
    IF total > 0 THEN <<sent * 100, total>> ELSE <<0, 1>>

RateEq(a, b) == a[1] * b[2] = b[1] * a[2]

(* EmailStatus.SENT, src/models/email.py:16; EmailStatus.FAILED has the    *)
(* value of CampaignStatus.FAILED.                                         *)
SENT == "sent"

(* An EmailLog row: the recipient (the number of its row in the upload)    *)
(* and the status.                                                         *)
EmailLog(to_email, status) == [to_email |-> to_email, status |-> status]

(* A task of send_campaign_emails: its position, its session's copy of the *)
(* campaign row, the EmailLogs added to its session and not yet committed  *)
(* (pending), and the rows it has taken up so far (attempted).             *)
NewWorker ==
    [pc |-> "scheduled", idx |-> 0, rows |-> <<>>, status |-> "none",
     total_emails |-> 0, sent_count |-> 0, error_count |-> 0,
     delivery_rate |-> <<0, 1>>, pending |-> << >>, attempted |-> << >>]

Respond(op, code) == [op |-> op, code |-> code]

Init ==
    /\ created = FALSE
    /\ db = NoCampaign
    /\ rows = <<>>
    /\ workers = EmptyBag
    /\ launched = 0
    /\ response = Respond("none", 0)
    /\ email_logs = << >>
    /\ GuardIdle
    /\ VerifyIdle
    /\ ProviderIdle

(* background_tasks.add_task(send_campaign_emails, id, template, rows).    *)
(* The tasks are kept as a bag of task records: a task is known by its     *)
(* state alone.  A finished task is removed from the bag.                  *)
CanLaunch == launched < MaxLaunches
add_task(rs) ==
    workers (+) SetToBag({[NewWorker EXCEPT !.rows = rs]})
Replace(wk, new) == (workers (-) SetToBag({wk})) (+) SetToBag({new})
Remove(wk) == workers (-) SetToBag({wk})

(* ---- create_campaign, src/routes/campaigns.py:36-120 ---- *)
(* The request names a template and optionally an upload.  upload is one   *)
(* of "none" (no upload_id), "missing" (no such upload), "unprocessed"     *)
(* (processed_data without rows) or "rows" (processed rows rs).            *)
UploadKinds == {"none", "missing", "unprocessed", "rows"}

NewCampaign(total, hasUpload) ==
    [status |-> IF total > 0 THEN SENDING ELSE DRAFT,
     total_emails |-> total,
     sent_count |-> 0,
     error_count |-> 0,
     delivery_rate |-> <<0, 1>>,
     upload_id |-> hasUpload]

NoValidRowsNever(upload, rs) == FALSE

(* lines 71-79: total_emails == 0 for an upload *)
NoValidRows(upload, rs) == upload = "rows" /\ Len(ValidRows(rs)) = 0

create_campaign(templateExists, upload, rs) ==
    /\ ~created
    /\ UNCHANGED email_logs
    /\ IF ~templateExists
       THEN /\ response' = Respond("create", 404)
            /\ UNCHANGED <<created, db, rows, workers, launched>>
       ELSE IF upload = "missing"
       THEN /\ response' = Respond("create", 404)
            /\ UNCHANGED <<created, db, rows, workers, launched>>
       ELSE IF upload = "unprocessed"
       THEN /\ response' = Respond("create", 400)
            /\ UNCHANGED <<created, db, rows, workers, launched>>
       ELSE IF NoValidRows(upload, rs)
       THEN /\ response' = Respond("create", 400)
            /\ UNCHANGED <<created, db, rows, workers, launched>>
       ELSE LET total == IF upload = "rows" THEN Len(ValidRows(rs)) ELSE 0 IN
            /\ created' = TRUE
            /\ db' = NewCampaign(total, upload = "rows")
            /\ rows' = IF upload = "rows" THEN rs ELSE <<>>
            /\ workers' = IF total > 0 THEN add_task(rs) ELSE workers
            /\ launched' = IF total > 0 THEN launched + 1 ELSE launched
            /\ response' = Respond("create", 200)

(* ---- update_campaign, src/routes/campaigns.py:177-213 ---- *)
(* campaign_update.dict(exclude_unset=True): the status field is either    *)
(* unset or any CampaignStatus (src/schemas/email.py:40-42); every set     *)
(* field is assigned to the row and committed.                             *)
Unset == "unset"

update_campaign(newStatus) ==
    /\ created
    /\ UNCHANGED email_logs
    /\ IF db = NoCampaign
       THEN /\ response' = Respond("update", 404)
            /\ UNCHANGED <<created, db, rows, workers, launched>>
       ELSE /\ db' = IF newStatus = Unset THEN db
                     ELSE [db EXCEPT !.status = newStatus]
            /\ response' = Respond("update", 200)
            /\ UNCHANGED <<created, rows, workers, launched>>

(* ---- delete_campaign, src/routes/campaigns.py:215-245 ---- *)
(* db.delete(campaign) cascades over Campaign.email_logs                   *)
(* (cascade="all, delete-orphan", src/models/email.py:48): the campaign's  *)
(* EmailLog rows are deleted with it.                                      *)
delete_campaign ==
    /\ created
    /\ IF db = NoCampaign
       THEN /\ response' = Respond("delete", 404)
            /\ UNCHANGED <<created, db, rows, workers, launched, email_logs>>
       ELSE /\ db' = NoCampaign
            /\ email_logs' = << >>
            /\ response' = Respond("delete", 200)
            /\ UNCHANGED <<created, rows, workers, launched>>

(* ---- pause_campaign, src/routes/campaigns.py:247-283 ---- *)
PauseAllowedUnlessPaused(status) == status # PAUSED
PauseAllowed(status) == status = SENDING

pause_campaign ==
    /\ created
    /\ UNCHANGED email_logs
    /\ IF db = NoCampaign
       THEN /\ response' = Respond("pause", 404)
            /\ UNCHANGED <<created, db, rows, workers, launched>>
       ELSE IF ~PauseAllowed(db.status)
       THEN /\ response' = Respond("pause", 400)
            /\ UNCHANGED <<created, db, rows, workers, launched>>
       ELSE /\ db' = [db EXCEPT !.status = PAUSED]
            /\ response' = Respond("pause", 200)
            /\ UNCHANGED <<created, rows, workers, launched>>

(* ---- resume_campaign, src/routes/campaigns.py:285-339 ---- *)
(* The worker is relaunched with all rows of the upload, only when the     *)
(* campaign has an upload_id.  A resume that would launch a worker is      *)
(* taken only while a worker slot is left (MaxLaunches).                   *)
ResumeAllowedAlsoFailed(status) == status \in {PAUSED, FAILED}
ResumeAllowed(status) == status = PAUSED

ResumeRowsNotLogged ==
    [n \in 1..Len(rows) |->
        IF \E i \in 1..Len(email_logs) : email_logs[i].to_email = n
        THEN [rows[n] EXCEPT !.valid = FALSE]
        ELSE rows[n]]

(* lines 314-325: the rows handed to the relaunched task are the rows of   *)
(* the upload, all of them                                                 *)
ResumeRows == rows

resume_campaign ==
    /\ created
    /\ UNCHANGED email_logs
    /\ IF db = NoCampaign
       THEN /\ response' = Respond("resume", 404)
            /\ UNCHANGED <<created, db, rows, workers, launched>>
       ELSE IF ~ResumeAllowed(db.status)
       THEN /\ response' = Respond("resume", 400)
            /\ UNCHANGED <<created, db, rows, workers, launched>>
       ELSE /\ db.upload_id => CanLaunch
            /\ db' = [db EXCEPT !.status = SENDING]
            /\ workers' = IF db.upload_id THEN add_task(ResumeRows)
                           ELSE workers
            /\ launched' = IF db.upload_id THEN launched + 1 ELSE launched
            /\ response' = Respond("resume", 200)
            /\ UNCHANGED <<created, rows>>

(* ---- send_campaign_emails, src/routes/campaigns.py:437-520 ---- *)
(* A worker's copy of the campaign row, as loaded by its first db.get.     *)
LoadCopy(wk, row) ==
    [wk EXCEPT !.status = row.status,
               !.total_emails = row.total_emails,
               !.sent_count = row.sent_count,
               !.error_count = row.error_count,
               !.delivery_rate = row.delivery_rate]

(* await db.commit() of a worker session: an UPDATE of the columns whose   *)
(* value in the copy differs from the value at the session's last commit.  *)
Commit(row, before, after) ==
    [row EXCEPT
        !.status = IF after.status # before.status THEN after.status ELSE @,
        !.sent_count =
            IF after.sent_count # before.sent_count THEN after.sent_count ELSE @,
        !.error_count =
            IF after.error_count # before.error_count THEN after.error_count ELSE @,
        !.delivery_rate =
            IF ~RateEq(after.delivery_rate, before.delivery_rate)
            THEN after.delivery_rate ELSE @]

(* line 458: the statuses at which the loop breaks *)
StopStatus(status) == status \in {PAUSED, CANCELLED, FAILED}

(* Results of the outbound send of one iteration: send_email returned      *)
(* status success, returned an error result, or an exception was raised    *)
(* and caught by the iteration's except clause (lines 489-499).            *)
SendOutcomes == {"success", "error", "raise"}

CountAttemptRateOfProcessed(wk, outcome) ==
    LET counted ==
            IF outcome = "success"
            THEN [wk EXCEPT !.sent_count = @ + 1]
            ELSE [wk EXCEPT !.error_count = @ + 1]
    IN [counted EXCEPT
           !.delivery_rate =
               DeliveryRate(counted.sent_count + counted.error_count,
                            counted.total_emails)]

(* lines 489-502: count the attempt, then recompute delivery_rate *)
CountAttempt(wk, outcome) ==
    LET counted ==
            IF outcome = "success"
            THEN [wk EXCEPT !.sent_count = @ + 1]
            ELSE [wk EXCEPT !.error_count = @ + 1]
    IN [counted EXCEPT
           !.delivery_rate = DeliveryRate(counted.sent_count, counted.total_emails)]

(* lines 455-478: from the loop head to the next suspension point.  The   *)
(* per-iteration db.get returns the session's copy without a query, so the *)
(* worker runs on from a returned commit to the next outbound send (pc     *)
(* "sending") or out of the loop (pc "finish") without yielding: the loop  *)
(* ends when the rows are exhausted, breaks on a stop status of the copy,  *)
(* and a row whose template does not render is logged and skipped by       *)
(* `continue`.                                                             *)
(* The row taken up is recorded in `attempted`; log_email_error for a row   *)
(* that does not render adds a FAILED EmailLog to the session (lines       *)
(* 476-478, 534-543).                                                      *)
RowNumber(rs, k) ==
    CHOOSE n \in 1..Len(rs) :
        IsValid(rs[n]) /\ Cardinality({m \in 1..n : IsValid(rs[m])}) = k

LoopHeadEndingRun(wk) ==
    LET valid_rows == ValidRows(wk.rows) IN
    IF wk.idx > Len(valid_rows) THEN [wk EXCEPT !.pc = "finish"]
    ELSE IF StopStatus(wk.status) THEN [wk EXCEPT !.pc = "finish"]
    ELSE IF ~valid_rows[wk.idx].renders
    THEN [wk EXCEPT !.pc = "finish",
                    !.attempted = Append(@, RowNumber(wk.rows, wk.idx))]
    ELSE [wk EXCEPT !.pc = "sending",
                    !.attempted = Append(@, RowNumber(wk.rows, wk.idx))]

RECURSIVE LoopHead(_)
LoopHead(wk) ==
    LET valid_rows == ValidRows(wk.rows) IN
    IF wk.idx > Len(valid_rows) THEN [wk EXCEPT !.pc = "finish"]
    ELSE IF StopStatus(wk.status) THEN [wk EXCEPT !.pc = "finish"]
    ELSE IF ~valid_rows[wk.idx].renders
    THEN LoopHead([wk EXCEPT
                      !.idx = @ + 1,
                      !.attempted = Append(@, RowNumber(wk.rows, wk.idx)),
                      !.pending =
                          Append(@, EmailLog(RowNumber(wk.rows, wk.idx),
                                             FAILED))])
    ELSE [wk EXCEPT !.pc = "sending",
                    !.attempted = Append(@, RowNumber(wk.rows, wk.idx))]

(* lines 445-453: the task starts, opens its session and loads the row;   *)
(* it returns at once when the campaign is gone.                           *)
WorkerStart(wk) ==
    /\ wk.pc = "scheduled"
    /\ workers' = IF db = NoCampaign THEN Remove(wk)
                  ELSE Replace(wk, LoopHead([LoadCopy(wk, db) EXCEPT !.idx = 1]))
    /\ UNCHANGED <<created, db, rows, response, launched, email_logs>>

(* lines 480-503: the send returns, the attempt is counted and committed.  *)
(* The UPDATE of a deleted row matches nothing: the commit raises, the     *)
(* handler at 511-520 finds no campaign and the task ends.                 *)
(* log_email_success / log_email_error (lines 522-543) add the EmailLog of  *)
(* the attempt to the session; the commit inserts it together with the     *)
(* logs added since the last commit.                                       *)
LogOfAttempt(wk, outcome) ==
    EmailLog(RowNumber(wk.rows, wk.idx),
             IF outcome = "success" THEN SENT ELSE FAILED)

WorkerSend(wk, outcome) ==
    LET after == CountAttempt(wk, outcome)
    IN /\ wk.pc = "sending"
       /\ IF db = NoCampaign
          THEN /\ workers' = Remove(wk)
               /\ UNCHANGED <<db, email_logs>>
          ELSE /\ db' = Commit(db, wk, after)
               /\ email_logs' =
                      email_logs \o wk.pending \o <<LogOfAttempt(wk, outcome)>>
               /\ workers' =
                      Replace(wk, LoopHead([after EXCEPT !.idx = @ + 1,
                                                         !.pending = << >>]))
       /\ UNCHANGED <<created, rows, response, launched>>

AfterLoopCancelling(wk) ==
    [wk EXCEPT !.status = IF StopStatus(wk.status) THEN CANCELLED ELSE COMPLETED]

(* lines 505-507: after the loop, left by exhaustion or by break *)
AfterLoop(wk) == [wk EXCEPT !.status = COMPLETED]

WorkerFinish(wk) ==
    LET after == AfterLoop(wk)
    IN /\ wk.pc = "finish"
       /\ db' = IF db = NoCampaign THEN db ELSE Commit(db, wk, after)
       /\ email_logs' =
              IF db = NoCampaign THEN email_logs ELSE email_logs \o wk.pending
       /\ workers' = Remove(wk)
       /\ UNCHANGED <<created, rows, response, launched>>

(* lines 511-520: a persistence call of the worker (the first db.get, a    *)
(* commit) raises.  The handler reloads the row, sets FAILED and commits;  *)
(* that commit succeeds (persisted) or raises as well and is swallowed.    *)
(* The EmailLogs of the failed commit are rolled back with it.             *)
WorkerFail(wk, persisted) ==
    /\ wk.pc \in {"scheduled", "sending", "finish"}
    /\ db' = IF persisted /\ db # NoCampaign
             THEN [db EXCEPT !.status = FAILED] ELSE db
    /\ workers' = Remove(wk)
    /\ UNCHANGED <<created, rows, response, launched, email_logs>>

(* The campaign handlers and the worker leave the rest of the state alone. *)
Elsewhere == UNCHANGED <<guardVars, verifyVars, providerVars>>

Next ==
    \/ (\E t \in BOOLEAN, u \in UploadKinds, rs \in RowSeqs :
           create_campaign(t, u, rs)) /\ Elsewhere
    \/ (\E st \in CampaignStatus \cup {Unset} : update_campaign(st))
           /\ Elsewhere
    \/ delete_campaign /\ Elsewhere
    \/ pause_campaign /\ Elsewhere
    \/ resume_campaign /\ Elsewhere
    \/ (\E w \in BagToSet(workers) : WorkerStart(w)) /\ Elsewhere
    \/ (\E w \in BagToSet(workers), o \in SendOutcomes : WorkerSend(w, o))
           /\ Elsewhere
    \/ (\E w \in BagToSet(workers) : WorkerFinish(w)) /\ Elsewhere
    \/ (\E w \in BagToSet(workers), p \in BOOLEAN : WorkerFail(w, p))
           /\ Elsewhere

Spec == Init /\ [][Next]_vars

(***************************************************************************)
(* Properties of the campaign state machine and the delivery worker        *)
(***************************************************************************)

(* Tasks that have started and not yet returned, and all tasks that have   *)
(* been added and not yet returned.                                        *)
Started(wk) == wk.pc \in {"sending", "finish"}
RunningWorkers ==
    LET S == {wk \in BagToSet(workers) : Started(wk)}
    IN BagCardinality([wk \in S |-> CopiesIn(wk, workers)])
LiveWorkers == BagCardinality(workers)

(* The task left its loop by `break`: rows remain and the status check     *)
(* met a stop status.                                                      *)
LeftByBreak(wk) == wk.pc = "finish" /\ wk.idx <= Len(ValidRows(wk.rows))

TerminalStatus == {COMPLETED, FAILED, CANCELLED}

(* C1: in every persisted state of a campaign,                             *)
(* sent_count + error_count <= total_emails.                               *)
CountersWithinTotal ==
    db # NoCampaign => db.sent_count + db.error_count <= db.total_emails

(* C2: at any time at most one delivery worker is active for the campaign. *)
AtMostOneWorker == RunningWorkers <= 1

(* C3: a worker whose status check met PAUSED, CANCELLED or FAILED stops   *)
(* and leaves the campaign status as it is; COMPLETED is written only      *)
(* after the loop ran over all rows.                                       *)
BreakLeavesStatus ==
    [][\A wk \in BagToSet(workers) :
          (LeftByBreak(wk) /\ WorkerFinish(wk)) => db'.status = db.status]_vars

(* C4: a resume that follows a successful pause of a campaign with         *)
(* recipients (only worker steps, none of them an infrastructure failure,  *)
(* in between) succeeds, leaves the status SENDING and a worker scheduled  *)
(* or running.                                                             *)
PauseThenResume ==
    [][(response = Respond("pause", 200) /\ db.upload_id /\ db.status # FAILED
          /\ resume_campaign)
         => (response' = Respond("resume", 200)
             /\ db'.status = SENDING
             /\ LiveWorkers' >= 1)]_vars

(* C5: pause_campaign sets PAUSED exactly when the status is SENDING; in   *)
(* every other status it is rejected and changes nothing.                  *)
PauseOnlyFromSending ==
    [][pause_campaign =>
          IF db # NoCampaign /\ db.status = SENDING
          THEN db' = [db EXCEPT !.status = PAUSED]
               /\ response' = Respond("pause", 200)
          ELSE db' = db /\ workers' = workers /\ response'.code # 200]_vars

PauseRejected ==
    /\ response = Respond("pause", 400)
    /\ db # NoCampaign
    /\ db.status \in {DRAFT, PAUSED, COMPLETED, FAILED, CANCELLED}

(* C6: resume_campaign sets SENDING and launches a worker only when the    *)
(* status is PAUSED; in every other status it is rejected, the campaign    *)
(* is unchanged and no worker is started.                                  *)
ResumeOnlyFromPaused ==
    [][resume_campaign =>
          IF db # NoCampaign /\ db.status = PAUSED
          THEN db' = [db EXCEPT !.status = SENDING]
               /\ response' = Respond("resume", 200)
               /\ LiveWorkers' = LiveWorkers + (IF db.upload_id THEN 1 ELSE 0)
          ELSE db' = db /\ workers' = workers /\ launched' = launched
               /\ response'.code # 200]_vars

ResumeOfFailedRejected ==
    /\ response = Respond("resume", 400)
    /\ db # NoCampaign
    /\ db.status = FAILED

(* C7: once the status is COMPLETED, FAILED or CANCELLED, no step changes  *)
(* it.                                                                     *)
TerminalStatusStays ==
    [][(db # NoCampaign /\ db.status \in TerminalStatus /\ db' # NoCampaign)
         => db'.status = db.status]_vars

RateMatchesCounters ==
    (db # NoCampaign /\ db.total_emails > 0)
        => RateEq(db.delivery_rate, <<db.sent_count * 100, db.total_emails>>)

RateAfterConcurrentCommits ==
    /\ db # NoCampaign
    /\ db.sent_count > 0
    /\ db.error_count > 0
    /\ RunningWorkers = 2

(* C10: the persisted sent_count and error_count never decrease.           *)
CountersNeverDecrease ==
    [][(db # NoCampaign /\ db' # NoCampaign)
         => (db'.sent_count >= db.sent_count
             /\ db'.error_count >= db.error_count)]_vars

(***************************************************************************)
(* Rate limiter and abuse detector (src/services/rate_limit_service.py)    *)
(* and the handlers that consult them (src/routes/submissions.py,          *)
(* src/routes/auth.py).                                                    *)
(*                                                                         *)
(* The ephemeral store is `redis`.  A rate counter carries the time at     *)
(* which it expires; the store drops it when the clock reaches that time.  *)
(* The keys of the abuse detector live 300, 900 and 3600 seconds (lines    *)
(* 186, 191, 201), longer than the MaxTime seconds of a behaviour, so none *)
(* of them expires within one.                                             *)
(* A handler is one action: its store round trips are not interleaved      *)
(* with those of another request.                                          *)
(***************************************************************************)

(* ---- bounds ---- *)
MaxIps == 2
MaxRequests == 2
MaxWindow == 2
MaxThreshold == 2
MaxTime == 2
MaxCalls == 3
MaxHandled == 2

Ips == 1..MaxIps
LimitTypes == {"form_submission", "api_auth"}
ActionTypes == {"form_submission", "auth"}
RateKeys == LimitTypes \X Ips
FrequencyKeys == Ips \X ActionTypes

(* rate_limits[limit_type] = {'requests': N, 'window': W}, lines 21-46.    *)
(* The limit types consulted by the handlers are configured alike.         *)
LimitConfigs == [requests : 1..MaxRequests, window : 1..MaxWindow]
RateLimits == {[t \in LimitTypes |-> c] : c \in LimitConfigs}

(* suspicious_thresholds, lines 49-53.  The threshold on distinct IPs per   *)
(* address varies; the two others take one value each.                     *)
ThresholdConfigs ==
    [multiple_ips_same_email : 1..MaxThreshold,
     high_frequency_submissions : {MaxThreshold + 1},
     failed_attempts_limit : {MaxThreshold}]

(* A rate counter: the value of the key and the time its TTL runs out.     *)
(* count = 0 stands for an absent key.  allowed_at lists the times of the  *)
(* allowed calls counted in it, the first being the call that created it.  *)
NoCounter == [count |-> 0, expire_at |-> 0, allowed_at |-> << >>]

(* A key that has no expiry (the store's TTL of it is -1) *)
NoTtl == -1

(* blocked_ip:<ip>, lines 260-268: absent, or the time its TTL runs out *)
NotBlocked == 0

EmptyStore ==
    [rate |-> [k \in RateKeys |-> NoCounter],
     email_ips |-> {},
     ip_frequency |-> [k \in FrequencyKeys |-> 0],
     auth_failures |-> [ip \in Ips |-> 0],
     malicious_ip |-> {},
     blocked_ip |-> [ip \in Ips |-> NotBlocked]]

(* redis_client.get(rate_key) and redis_client.ttl(rate_key) *)
Get(counter) == counter.count
Ttl(counter, t) ==
    IF counter.count = 0 THEN -2
    ELSE IF counter.expire_at = NoTtl THEN -1
    ELSE counter.expire_at - t

(* INCR creates the key, without an expiry, when it is absent; EXPIRE sets *)
(* the expiry of the key.                                                  *)
Incr(counter) ==
    [counter EXCEPT !.count = @ + 1,
                    !.expire_at = IF counter.count = 0 THEN NoTtl ELSE @]

Expire(counter, window, t) == [counter EXCEPT !.expire_at = t + window]

(* pipe.incr(rate_key); pipe.expire(rate_key, window); pipe.execute() *)
IncrExpire(counter, window, t) == Expire(Incr(counter), window, t)

AppliedInPart(counter, window, t) == Incr(counter)

(* What the store has done of a pipeline whose execute() raised after the  *)
(* store ran it: redis_client.pipeline() is transactional (MULTI/EXEC), so *)
(* both commands.                                                          *)
AppliedWhole(counter, window, t) == IncrExpire(counter, window, t)

Counted(counter, t) ==
    [counter EXCEPT !.allowed_at = Append(@, t)]

(* Where a store operation of is_rate_limited raises: nowhere, at the      *)
(* read (get, or ttl after it), or at the pipeline, whose commands the     *)
(* store has then applied or not.                                          *)
RateFails == {"none", "read", "pipeline_lost", "pipeline_applied"}

NotCalled == [called |-> FALSE]

RateClosed(error) ==
    [called |-> TRUE, allowed |-> FALSE, error |-> error, raised |-> FALSE,
     retry_after |-> 0, remaining |-> 0]

(* lines 72-80 and 142-148: no store, or a store operation raised *)
RateOpen(error) ==
    [called |-> TRUE, allowed |-> TRUE, error |-> error, raised |-> FALSE,
     retry_after |-> 0, remaining |-> 0]

ExceededAtOrAboveNext(count, requests) == count > requests
Exceeded(count, requests) == count >= requests

(* ---- is_rate_limited, lines 55-148 ---- *)
(* Gives the returned dict and the store after the call.                   *)
is_rate_limited(store, key, fail, t) ==
    LET config == rate_limits[key[1]]
        counter == store.rate[key]
        current_count == Get(counter)
        bumped == IncrExpire(counter, config.window, t)
        applied == AppliedWhole(counter, config.window, t)
    IN  IF ~redis_client
        THEN [result |-> RateOpen("none"), store |-> store]
        ELSE IF fail = "read"
        THEN [result |-> RateOpen("error"), store |-> store]
        ELSE IF Exceeded(current_count, config.requests)
        THEN [result |->
                 [called |-> TRUE, allowed |-> FALSE, error |-> "exceeded",
                  raised |-> FALSE, retry_after |-> Ttl(counter, t),
                  remaining |-> 0],
              store |-> store]
        ELSE IF fail = "pipeline_lost"
        THEN [result |-> RateOpen("error"), store |-> store]
        ELSE IF fail = "pipeline_applied"
        THEN [result |-> RateOpen("error"),
              store |-> [store EXCEPT !.rate[key] = applied]]
        ELSE [result |->
                 [called |-> TRUE, allowed |-> TRUE, error |-> "none",
                  raised |-> FALSE, retry_after |-> 0,
                  remaining |->
                      IF config.requests - (current_count + 1) > 0
                      THEN config.requests - (current_count + 1) ELSE 0],
              store |-> [store EXCEPT !.rate[key] = Counted(bumped, t)]]

(* Where a store operation of check_suspicious_activity raises: nowhere,   *)
(* at its first operation, or at one after the counters were updated.      *)
AbuseFails == {"none", "first", "last"}

AbuseOpen(error) ==
    [called |-> TRUE, suspicious |-> FALSE, blocked |-> FALSE,
     error |-> error, raised |-> FALSE, indicators |-> 0, score |-> 0]

Indicator(b) == IF b THEN 1 ELSE 0

SeenFrom(existing_ips, ip) == Cardinality(existing_ips)

(* ---- check_suspicious_activity, lines 150-242 ---- *)
check_suspicious_activity(store, ip_address, email, action_type, fail) ==
    LET T == suspicious_thresholds
        seen == SeenFrom(store.email_ips, ip_address)
        many_ips == email /\ seen >= T.multiple_ips_same_email
        very_many_ips == email /\ seen >= T.multiple_ips_same_email * 2
        s1 == IF email
              THEN [store EXCEPT !.email_ips = @ \cup {ip_address}]
              ELSE store
        freq_key == <<ip_address, action_type>>
        freq_count == s1.ip_frequency[freq_key] + 1
        s2 == [s1 EXCEPT !.ip_frequency[freq_key] = freq_count]
        frequent == freq_count >= T.high_frequency_submissions
        fail_count == s2.auth_failures[ip_address] + 1
        s3 == IF action_type = "auth"
              THEN [s2 EXCEPT !.auth_failures[ip_address] = fail_count]
              ELSE s2
        failing == action_type = "auth"
                   /\ fail_count >= T.failed_attempts_limit
        malicious == ip_address \in s3.malicious_ip
        n == Indicator(many_ips) + Indicator(frequent) + Indicator(failing)
             + Indicator(malicious)
    IN  IF ~redis_client
        THEN [result |-> AbuseOpen("none"), store |-> store]
        ELSE IF fail = "first"
        THEN [result |-> AbuseOpen("error"), store |-> store]
        ELSE IF fail = "last"
        THEN [result |-> AbuseOpen("error"), store |-> s3]
        ELSE [result |->
                 [called |-> TRUE, suspicious |-> n > 0,
                  blocked |-> very_many_ips \/ frequent \/ failing
                              \/ malicious,
                  error |-> "none", raised |-> FALSE, indicators |-> n,
                  score |-> IF n * 25 < 100 THEN n * 25 ELSE 100],
              store |-> s3]

(* ---- the handlers ---- *)
(* form: the form_id is "default", names an active form, or names none.    *)
Forms == {"default", "found", "missing"}
DbFails == {"none", "lookup", "commit"}

Request(op, ip, rate, abuse, code) ==
    [op |-> op, ip |-> ip, rate |-> rate, abuse |-> abuse, code |-> code]

NoRequest == Request("none", 0, NotCalled, NotCalled, 0)

(* process_form_submission, src/routes/submissions.py:23-126, with         *)
(* handle_legacy_submission, lines 128-166.                                *)
process_form_submission(form, ip, email, rfail, afail, dbfail) ==
    LET rate == is_rate_limited(redis, <<"form_submission", ip>>, rfail, now)
        abuse == check_suspicious_activity(rate.store, ip, email,
                                           "form_submission", afail)
        answer(r, a, code) == Request("submit", ip, r, a, code)
    IN  /\ calls < MaxHandled
        /\ calls' = calls + 1
        /\ IF form # "default" /\ dbfail = "lookup"
           THEN /\ guard' = answer(NotCalled, NotCalled, 500)
                /\ redis' = redis
           ELSE IF form = "missing"
           THEN /\ guard' = answer(NotCalled, NotCalled, 200)
                /\ redis' = redis
           ELSE IF rate.result.raised
           THEN /\ guard' = answer(rate.result, NotCalled, 500)
                /\ redis' = rate.store
           ELSE IF ~rate.result.allowed
           THEN /\ guard' = answer(rate.result, NotCalled, 429)
                /\ redis' = rate.store
           ELSE IF abuse.result.raised
           THEN /\ guard' = answer(rate.result, abuse.result, 500)
                /\ redis' = abuse.store
           ELSE IF abuse.result.blocked
           THEN /\ guard' = answer(rate.result, abuse.result, 403)
                /\ redis' = abuse.store
           ELSE /\ guard' = answer(rate.result, abuse.result,
                                   IF dbfail = "commit" THEN 500 ELSE 200)
                /\ redis' = abuse.store
        /\ UNCHANGED <<now, redis_client, rate_limits, suspicious_thresholds,
                       in_flight>>

(* login, src/routes/auth.py:18-74 *)
login(ip, password_ok, rfail, afail) ==
    LET rate == is_rate_limited(redis, <<"api_auth", ip>>, rfail, now)
        abuse == check_suspicious_activity(rate.store, ip, FALSE, "auth",
                                           afail)
        answer(r, a, code) == Request("login", ip, r, a, code)
    IN  /\ calls < MaxHandled
        /\ calls' = calls + 1
        /\ IF rate.result.raised
           THEN /\ guard' = answer(rate.result, NotCalled, 500)
                /\ redis' = rate.store
           ELSE IF ~rate.result.allowed
           THEN /\ guard' = answer(rate.result, NotCalled, 429)
                /\ redis' = rate.store
           ELSE IF abuse.result.raised
           THEN /\ guard' = answer(rate.result, abuse.result, 500)
                /\ redis' = abuse.store
           ELSE IF abuse.result.blocked
           THEN /\ guard' = answer(rate.result, abuse.result, 403)
                /\ redis' = abuse.store
           ELSE /\ guard' = answer(rate.result, abuse.result,
                                   IF password_ok THEN 200 ELSE 401)
                /\ redis' = abuse.store
        /\ UNCHANGED <<now, redis_client, rate_limits, suspicious_thresholds,
                       in_flight>>

(* One second passes; the store drops the keys whose TTL ran out.          *)
Expired(counter, t) ==
    counter.count > 0 /\ counter.expire_at # NoTtl /\ counter.expire_at <= t

Tick ==
    /\ now < MaxTime
    /\ now' = now + 1
    /\ redis' =
           [redis EXCEPT
               !.rate =
                   [k \in RateKeys |->
                       IF Expired(redis.rate[k], now + 1)
                       THEN NoCounter ELSE redis.rate[k]],
               !.blocked_ip =
                   [ip \in Ips |->
                       IF redis.blocked_ip[ip] \notin {NotBlocked, NoTtl}
                          /\ redis.blocked_ip[ip] <= now + 1
                       THEN NotBlocked ELSE redis.blocked_ip[ip]]]
    /\ UNCHANGED <<redis_client, rate_limits, suspicious_thresholds, calls,
                   guard, in_flight>>

(* malicious_ip:<ip> keys are written by no code of the service; the       *)
(* store starts with none or with one.                                     *)
MaliciousSets == {{}, {1}}

InitGuard ==
    /\ now = 0
    /\ redis_client \in BOOLEAN
    /\ rate_limits \in RateLimits
    /\ suspicious_thresholds \in ThresholdConfigs
    /\ \E m \in MaliciousSets :
          redis = [EmptyStore EXCEPT !.malicious_ip = m]
    /\ calls = 0
    /\ guard = NoRequest
    /\ in_flight = << >>
    /\ CampaignIdle
    /\ VerifyIdle
    /\ ProviderIdle

OutsideGuard == UNCHANGED <<campaignVars, verifyVars, providerVars>>

(* What goes wrong during one request: nothing, one operation of the store *)
(* or of the database, or the store as a whole (its first operation in     *)
(* each guard raises).                                                     *)
Faults ==
    { <<"none", "none", "none">>,
      <<"none", "none", "lookup">>,
      <<"none", "none", "commit">>,
      <<"read", "none", "none">>,
      <<"pipeline_lost", "none", "none">>,
      <<"pipeline_applied", "none", "none">>,
      <<"none", "first", "none">>,
      <<"none", "last", "none">>,
      <<"read", "first", "none">> }

NextGuard ==
    \/ (\E form \in Forms, ip \in Ips, email \in BOOLEAN, fault \in Faults :
           process_form_submission(form, ip, email, fault[1], fault[2],
                                   fault[3]))
         /\ OutsideGuard
    \/ (\E ip \in Ips, ok \in BOOLEAN,
          fault \in {f \in Faults : f[3] = "none"} :
           login(ip, ok, fault[1], fault[2]))
         /\ OutsideGuard
    \/ Tick /\ OutsideGuard

SpecGuard == InitGuard /\ [][NextGuard]_vars

(* ---- the two guards called on their own ---- *)
(* One call of is_rate_limited(key=ip, limit_type).                        *)
RateLimited(limit_type, ip, fail) ==
    LET rate == is_rate_limited(redis, <<limit_type, ip>>, fail, now)
    IN  /\ calls < MaxCalls
        /\ calls' = calls + 1
        /\ guard' = Request(limit_type, ip, rate.result, NotCalled, 0)
        /\ redis' = rate.store
        /\ UNCHANGED <<now, redis_client, rate_limits, suspicious_thresholds,
                       in_flight>>

(* One call of check_suspicious_activity(ip_address, email, action_type).  *)
SuspiciousActivity(ip, email, action_type, fail) ==
    LET abuse == check_suspicious_activity(redis, ip, email, action_type, fail)
    IN  /\ calls < MaxCalls
        /\ calls' = calls + 1
        /\ guard' = Request(action_type, ip, NotCalled, abuse.result, 0)
        /\ redis' = abuse.store
        /\ UNCHANGED <<now, redis_client, rate_limits, suspicious_thresholds,
                       in_flight>>

NextRate ==
    \/ (\E ip \in Ips, fail \in RateFails :
           RateLimited("form_submission", ip, fail)) /\ OutsideGuard
    \/ Tick /\ OutsideGuard

SpecRate == InitGuard /\ [][NextRate]_vars

NextAbuse ==
    \/ (\E ip \in Ips, email \in BOOLEAN, action_type \in ActionTypes,
           fail \in AbuseFails :
           SuspiciousActivity(ip, email, action_type, fail)) /\ OutsideGuard

SpecAbuse == InitGuard /\ [][NextAbuse]_vars

(* ---- block_ip_temporarily, lines 244-275 ---- *)
(* hset of the block data, then expire; either may raise.  Returns True    *)
(* when both were done.                                                    *)
MaxDuration == 2
BlockFails == {"none", "hset", "expire"}

block_ip_temporarily(store, ip_address, duration, fail, t) ==
    IF ~redis_client \/ fail = "hset"
    THEN [result |-> FALSE, store |-> store]
    ELSE IF fail = "expire"
    THEN [result |-> FALSE,
          store |-> [store EXCEPT
                        !.blocked_ip[ip_address] =
                            IF @ = NotBlocked THEN NoTtl ELSE @]]
    ELSE [result |-> TRUE,
          store |-> [store EXCEPT !.blocked_ip[ip_address] = t + duration]]

BlockIpTemporarily(ip, duration, fail) ==
    LET block == block_ip_temporarily(redis, ip, duration, fail, now)
    IN  /\ calls < MaxCalls
        /\ calls' = calls + 1
        /\ guard' = Request(IF block.result THEN "blocked" ELSE "not_blocked",
                            ip, NotCalled, NotCalled, 0)
        /\ redis' = block.store
        /\ UNCHANGED <<now, redis_client, rate_limits, suspicious_thresholds,
                       in_flight>>

NextBlock ==
    \/ (\E ip \in Ips, duration \in 1..MaxDuration, fail \in BlockFails :
           BlockIpTemporarily(ip, duration, fail)) /\ OutsideGuard
    \/ (\E ip \in Ips, email \in BOOLEAN, action_type \in ActionTypes,
           fail \in AbuseFails :
           SuspiciousActivity(ip, email, action_type, fail)) /\ OutsideGuard
    \/ Tick /\ OutsideGuard

SpecBlock == InitGuard /\ [][NextBlock]_vars

(* ---- is_rate_limited called concurrently ---- *)
(* A call is suspended at each await: at redis_client.get (line 97, taken  *)
(* together with the ttl read of a denied call, line 102) and at           *)
(* pipe.execute() (line 126).  Between them other calls run.               *)
MaxCallers == 2
Callers == 1..MaxCallers

InFlight(pc, ip, current_count, fail, result) ==
    [pc |-> pc, ip |-> ip, current_count |-> current_count, fail |-> fail,
     result |-> result]

NoCall == InFlight("idle", 0, 0, "none", NotCalled)

(* lines 72-94: the call is made, for key ip and type form_submission *)
RateEnter(c, ip) ==
    /\ in_flight[c].pc = "idle"
    /\ calls < MaxCalls
    /\ calls' = calls + 1
    /\ in_flight' =
           [in_flight EXCEPT ![c] =
               IF ~redis_client
               THEN InFlight("idle", ip, 0, "none", RateOpen("none"))
               ELSE InFlight("get", ip, 0, "none", NotCalled)]
    /\ UNCHANGED <<now, redis_client, rate_limits, suspicious_thresholds,
                   redis, guard>>

(* lines 96-120: the count is read; the call is denied at the limit *)
RateRead(c, fail) ==
    LET key == <<"form_submission", in_flight[c].ip>>
        config == rate_limits[key[1]]
        counter == redis.rate[key]
        current_count == Get(counter)
        done(result) == InFlight("idle", in_flight[c].ip, current_count, fail,
                                 result)
    IN  /\ in_flight[c].pc = "get"
        /\ in_flight' =
               [in_flight EXCEPT ![c] =
                   IF fail = "read"
                   THEN done(RateOpen("error"))
                   ELSE IF Exceeded(current_count, config.requests)
                   THEN done([called |-> TRUE, allowed |-> FALSE,
                              error |-> "exceeded", raised |-> FALSE,
                              retry_after |-> Ttl(counter, now),
                              remaining |-> 0])
                   ELSE InFlight("pipeline", in_flight[c].ip, current_count,
                                 "none", NotCalled)]
        /\ UNCHANGED <<now, redis_client, rate_limits, suspicious_thresholds,
                       redis, calls, guard>>

(* lines 122-140: the pipeline is executed on the counter as it is now;    *)
(* the call answers from the count it read.                                *)
RatePipeline(c, fail) ==
    LET key == <<"form_submission", in_flight[c].ip>>
        config == rate_limits[key[1]]
        counter == redis.rate[key]
        current_count == in_flight[c].current_count
        done(result) == InFlight("idle", in_flight[c].ip, current_count, fail,
                                 result)
    IN  /\ in_flight[c].pc = "pipeline"
        /\ IF fail = "pipeline_lost"
           THEN /\ in_flight' = [in_flight EXCEPT ![c] = done(RateOpen("error"))]
                /\ redis' = redis
           ELSE IF fail = "pipeline_applied"
           THEN /\ in_flight' = [in_flight EXCEPT ![c] = done(RateOpen("error"))]
                /\ redis' = [redis EXCEPT !.rate[key] =
                                AppliedWhole(counter, config.window, now)]
           ELSE /\ in_flight' =
                       [in_flight EXCEPT ![c] =
                           done([called |-> TRUE, allowed |-> TRUE,
                                 error |-> "none", raised |-> FALSE,
                                 retry_after |-> 0,
                                 remaining |->
                                     IF config.requests - (current_count + 1) > 0
                                     THEN config.requests - (current_count + 1)
                                     ELSE 0])]
                /\ redis' = [redis EXCEPT !.rate[key] =
                                Counted(IncrExpire(counter, config.window, now),
                                        now)]
        /\ UNCHANGED <<now, redis_client, rate_limits, suspicious_thresholds,
                       calls, guard>>

InitRace ==
    /\ now = 0
    /\ redis_client \in BOOLEAN
    /\ rate_limits \in RateLimits
    /\ suspicious_thresholds \in ThresholdConfigs
    /\ redis = EmptyStore
    /\ calls = 0
    /\ guard = NoRequest
    /\ in_flight = [c \in Callers |-> NoCall]
    /\ CampaignIdle
    /\ VerifyIdle
    /\ ProviderIdle

NextRace ==
    \/ (\E c \in Callers, ip \in Ips : RateEnter(c, ip)) /\ OutsideGuard
    \/ (\E c \in Callers, fail \in {"none", "read"} : RateRead(c, fail))
           /\ OutsideGuard
    \/ (\E c \in Callers,
          fail \in {"none", "pipeline_lost", "pipeline_applied"} :
           RatePipeline(c, fail)) /\ OutsideGuard
    \/ Tick /\ OutsideGuard

SpecRace == InitRace /\ [][NextRace]_vars

(***************************************************************************)
(* Properties of the rate limiter, the abuse detector and the handlers     *)
(***************************************************************************)

(* The step is a call of is_rate_limited for key k that the store answered *)
(* without raising.                                                        *)
RateCallOn(k) ==
    /\ calls' = calls + 1
    /\ redis_client
    /\ guard'.op = k[1]
    /\ guard'.ip = k[2]
    /\ guard'.rate.called
    /\ guard'.rate.error # "error"

(* C11: with the limit {requests = N, window = W}, a call for a key that   *)
(* follows N allowed calls for that key, the first of them less than W     *)
(* seconds ago, returns allowed = false with retry_after <= W.             *)
DeniedAfterLimit ==
    [][\A k \in RateKeys :
          LET N == rate_limits[k[1]].requests
              W == rate_limits[k[1]].window
              h == redis.rate[k].allowed_at
          IN  (RateCallOn(k) /\ Len(h) >= N /\ now - h[Len(h) - N + 1] < W)
                  => (~guard'.rate.allowed /\ guard'.rate.retry_after <= W)]_vars

DeniedWithRetryAfter ==
    /\ redis_client
    /\ guard.rate.called
    /\ ~guard.rate.allowed
    /\ guard.rate.retry_after >= 1
    /\ guard.rate.retry_after <= rate_limits[guard.op].window

(* C12: once W seconds have passed since the first counted call of a       *)
(* window, a call for the same key is allowed again, whatever allowed      *)
(* calls were made inside the window.                                      *)
AllowedAfterWindow ==
    [][\A k \in RateKeys :
          LET W == rate_limits[k[1]].window
              h == redis.rate[k].allowed_at
          IN  (RateCallOn(k) /\ Len(h) >= 1 /\ now >= h[1] + W)
                  => guard'.rate.allowed]_vars

(* C13: without a store, or when a store operation raises, is_rate_limited *)
(* returns allowed = true and check_suspicious_activity returns            *)
(* blocked = false, neither raises, and the handler answers neither 429    *)
(* nor 403 on their account.                                               *)
StoreFailed(result) ==
    result.called /\ (~redis_client \/ result.error = "error")

FailOpen ==
    /\ StoreFailed(guard.rate)
          => (guard.rate.allowed /\ ~guard.rate.raised /\ guard.code # 429)
    /\ StoreFailed(guard.abuse)
          => (~guard.abuse.blocked /\ ~guard.abuse.raised
              /\ guard.code # 403)

(* The store raised in both guards for a key whose counter is at its       *)
(* limit.                                                                  *)
FailedOpenAtLimit ==
    /\ redis_client
    /\ guard.op = "submit"
    /\ StoreFailed(guard.rate)
    /\ StoreFailed(guard.abuse)
    /\ redis.rate[<<"form_submission", guard.ip>>].count
          >= rate_limits["form_submission"].requests

(* C14: the check that adds the T1-th distinct IP of an address returns    *)
(* suspicious = true, and the check that adds the 2*T1-th returns          *)
(* blocked = true.                                                         *)
FlaggedAtThreshold ==
    [][(/\ calls' = calls + 1
        /\ redis_client
        /\ guard'.abuse.called
        /\ guard'.abuse.error = "none"
        /\ redis'.email_ips # redis.email_ips)
         => LET T1 == suspicious_thresholds.multiple_ips_same_email
                distinct == Cardinality(redis'.email_ips)
            IN  /\ distinct >= T1 => guard'.abuse.suspicious
                /\ distinct >= 2 * T1 => guard'.abuse.blocked]_vars

(* C15: a submission answered with success and a login that reached the    *)
(* password check were allowed by the rate limiter and found not blocked   *)
(* by the abuse detector.                                                  *)
Accepted ==
    \/ guard.op = "submit" /\ guard.code = 200
    \/ guard.op = "login" /\ guard.code \in {200, 401}

CheckedBeforeAccepted ==
    Accepted => /\ guard.rate.called
                /\ guard.rate.allowed
                /\ guard.abuse.called
                /\ ~guard.abuse.blocked

(***************************************************************************)
(* Email verification engine, src/services/verification_service.py.        *)
(*                                                                         *)
(* An address is the value handed to verify_email: a string with a local   *)
(* part and a domain (a sequence of labels, empty when the text has no     *)
(* domain), or a value that is not a string.  The cache is the set of      *)
(* email_verification:* hashes of the store, each with its expiry.  The    *)
(* time unit is the tick of the store's clock; cache_ttl is CacheTtl       *)
(* ticks.  An MX lookup answers with one of DnsOutcomes, chosen anew at    *)
(* every lookup.                                                           *)
(***************************************************************************)
MaxVerifications == 3
MaxBatches == 1
MaxBatch == 2
MaxVerifyTime == 2
CacheTtl == 2

(* ---- VerificationStatus, src/models/verification.py:5-9 ---- *)
VALID == "valid"
INVALID == "invalid"
RISKY == "risky"
UNKNOWN == "unknown"

Address(local, domain) == [str |-> TRUE, local |-> local, domain |-> domain]
NotAString == [str |-> FALSE, local |-> "", domain |-> << >>]

Emails ==
    { Address("user", <<"corp", "example">>),
      Address("User", <<"corp", "example">>),
      Address("user", <<"mx", "mailinator", "com">>),
      Address("user", <<"gmail", "com">>),
      Address("not-an-email", << >>),
      Address("user name", <<"mailinator", "com">>),
      NotAString }

(* str.lower() on the texts of the model *)
Lower(text) ==
    CASE text = "User" -> "user"
      [] text = "True" -> "true"
      [] text = "False" -> "false"
      [] OTHER -> text

(* str(bool) at lines 301-304 and its reading back at lines 268-271 *)
Str(b) == IF b THEN "True" ELSE "False"
ReadBool(text) == Lower(text) = "true"

disposable_domains == { <<"mailinator", "com">>, <<"yopmail", "com">> }
webmail_domains == { <<"gmail", "com">>, <<"mail", "com">> }

(* domain.endswith(f'.{listed}') *)
EndsWith(domain, listed) ==
    /\ Len(domain) > Len(listed)
    /\ SubSeq(domain, Len(domain) - Len(listed) + 1, Len(domain)) = listed

_is_disposable_email(domain) ==
    \/ domain \in disposable_domains
    \/ \E listed \in disposable_domains : EndsWith(domain, listed)

_is_webmail_email(domain) ==
    \/ domain \in webmail_domains
    \/ \E listed \in webmail_domains : EndsWith(domain, listed)

(* validate_email accepts a text with one of these local parts and a       *)
(* domain; "raises" is an exception other than EmailNotValidError.         *)
LocalParts == {"user", "User"}

_verify_syntax(email) ==
    IF ~email.str THEN [raises |-> TRUE, is_valid_syntax |-> FALSE,
                        domain |-> << >>]
    ELSE IF email.local \notin LocalParts \/ email.domain = << >>
    THEN [raises |-> FALSE, is_valid_syntax |-> FALSE, domain |-> << >>]
    ELSE [raises |-> FALSE, is_valid_syntax |-> TRUE,
          domain |-> email.domain]

(* dns.resolver.resolve(domain, 'MX', lifetime=5) *)
DnsOutcomes == {"answer", "nxdomain", "error"}
_verify_mx_record(dns) == dns = "answer"

_determine_status(result) ==
    IF ~result.is_valid_syntax THEN INVALID
    ELSE IF result.is_disposable THEN RISKY
    ELSE IF ~result.has_mx_record THEN INVALID
    ELSE VALID

Result(email, status, syntax, mx, disposable, webmail, domain) ==
    [email |-> email, status |-> status, is_valid_syntax |-> syntax,
     has_mx_record |-> mx, is_disposable |-> disposable,
     is_webmail |-> webmail, domain |-> domain]

(* lines 59-69, and the result of the except branch, lines 106-116 *)
Unverified(email) ==
    Result(email, UNKNOWN, FALSE, FALSE, FALSE, FALSE, << >>)

(* ---- the cache ---- *)
NoExpiry == -1
NoEntry == [present |-> FALSE]
CacheKeys == {e \in Emails : e.str}
EmptyCache == [k \in CacheKeys |-> NoEntry]

Live(entry, t) ==
    entry.present /\ (entry.expire_at = NoExpiry \/ entry.expire_at > t)

(* f"email_verification:{email.lower()}" *)
CacheKeyAsGiven(email) == email
CacheKey(email) == [email EXCEPT !.local = Lower(@)]

CacheFaults == {"none", "hgetall", "hset", "expire"}

(* _get_cached_result: hit is FALSE for None *)
_get_cached_result(client, cache, email, fault, t) ==
    IF ~client \/ ~email.str \/ fault = "hgetall"
    THEN [hit |-> FALSE]
    ELSE LET entry == cache[CacheKey(email)]
         IN  IF Live(entry, t)
             THEN [hit |-> TRUE,
                   result |->
                       Result(email, entry.data.status,
                              ReadBool(entry.data.is_valid_syntax),
                              ReadBool(entry.data.has_mx_record),
                              ReadBool(entry.data.is_disposable),
                              ReadBool(entry.data.is_webmail),
                              entry.data.domain)]
             ELSE [hit |-> FALSE]

(* _cache_result: hset of the mapping, then expire *)
_cache_result_dropped(client, cache, email, result, fault, t) == cache

_cache_result(client, cache, email, result, fault, t) ==
    IF ~client \/ ~email.str \/ fault = "hset"
    THEN cache
    ELSE LET key == CacheKey(email)
             old == cache[key]
             cache_data ==
                 [status |-> result.status,
                  is_valid_syntax |-> Str(result.is_valid_syntax),
                  has_mx_record |-> Str(result.has_mx_record),
                  is_disposable |-> Str(result.is_disposable),
                  is_webmail |-> Str(result.is_webmail),
                  domain |-> result.domain]
             expire_at ==
                 IF fault # "expire" THEN t + CacheTtl
                 ELSE IF Live(old, t) THEN old.expire_at
                 ELSE NoExpiry
         IN  [cache EXCEPT ![key] =
                  [present |-> TRUE, data |-> cache_data,
                   expire_at |-> expire_at]]

(* verify_email, lines 38-116.  seen is the cache its read observes, cache *)
(* the cache its write goes to.  Returns the result, whether it came from  *)
(* the cache, the number of MX lookups made and the cache afterwards.      *)
Outcome(result, cached, looked_up, cache) ==
    [result |-> result, cached |-> cached, looked_up |-> looked_up,
     cache |-> cache]

verify_email(client, seen, cache, email, force_verify, dns, fault, t) ==
    LET cached_result ==
            IF ~force_verify /\ client
            THEN _get_cached_result(client, seen, email, fault, t)
            ELSE [hit |-> FALSE]
        syntax_result == _verify_syntax(email)
        invalid ==
            Result(email, INVALID, FALSE, FALSE, FALSE, FALSE, << >>)
        domain == syntax_result.domain
        checked ==
            Result(email, UNKNOWN, TRUE, _verify_mx_record(dns),
                   _is_disposable_email(domain), _is_webmail_email(domain),
                   domain)
        result == [checked EXCEPT !.status = _determine_status(checked)]
    IN  IF cached_result.hit
        THEN Outcome(cached_result.result, TRUE, 0, cache)
        ELSE IF syntax_result.raises
        THEN Outcome(Unverified(email), FALSE, 0, cache)
        ELSE IF ~syntax_result.is_valid_syntax
        THEN Outcome(invalid, FALSE, 0,
                     _cache_result(client, cache, email, invalid, fault, t))
        ELSE Outcome(result, FALSE, 1,
                     IF client
                     THEN _cache_result(client, cache, email, result, fault, t)
                     ELSE cache)

(* ---- verify_bulk_emails, lines 118-169 ---- *)
(* asyncio.gather runs one verify_email per address.  With a store every   *)
(* task is suspended at its cache read before any of them writes           *)
(* (overlapped), or the tasks run one after the other.                     *)
RECURSIVE Gather(_, _, _, _, _, _, _, _, _)
Gather(client, seen, cache, emails, force_verify, dns, fault, overlapped, t) ==
    IF emails = << >>
    THEN [outcomes |-> << >>, cache |-> cache]
    ELSE LET first ==
                 verify_email(client, IF overlapped THEN seen ELSE cache,
                              cache, Head(emails), force_verify, Head(dns),
                              fault, t)
             rest ==
                 Gather(client, seen, first.cache, Tail(emails), force_verify,
                        Tail(dns), fault, overlapped, t)
         IN  [outcomes |-> <<first>> \o rest.outcomes, cache |-> rest.cache]

Count(results, statuses) ==
    Cardinality({i \in 1..Len(results) : results[i].status \in statuses})

unknown_count_raised_only(results) == 0
unknown_count(results) ==
    Count(results, {r.status : r \in {results[i] : i \in 1..Len(results)}}
                       \ {VALID, INVALID, RISKY})

Verified(op, emails, force_verify, fault, t, outcomes, counted) ==
    LET results == [i \in 1..Len(outcomes) |-> outcomes[i].result]
    IN  [op |-> op, emails |-> emails, force_verify |-> force_verify,
         fault |-> fault, at |-> t,
         results |-> results,
         cached |-> [i \in 1..Len(outcomes) |-> outcomes[i].cached],
         total |-> IF counted THEN Len(emails) ELSE 0,
         valid |-> IF counted THEN Count(results, {VALID}) ELSE 0,
         invalid |-> IF counted THEN Count(results, {INVALID}) ELSE 0,
         risky |-> IF counted THEN Count(results, {RISKY}) ELSE 0,
         unknown |-> IF counted THEN unknown_count(results) ELSE 0]

NothingVerified == Verified("none", << >>, FALSE, "none", 0, << >>, FALSE)

RECURSIVE LookedUp(_)
LookedUp(outcomes) ==
    IF outcomes = << >> THEN 0
    ELSE Head(outcomes).looked_up + LookedUp(Tail(outcomes))

VerifyEmail(email, force_verify, dns, fault) ==
    /\ verifier.calls < MaxVerifications
    /\ LET out == verify_email(verifier.redis_client, verifier.cache,
                               verifier.cache, email, force_verify, dns,
                               fault, verifier.now)
       IN  /\ verifier' = [verifier EXCEPT !.cache = out.cache,
                                           !.calls = @ + 1]
           /\ lookups' = lookups + out.looked_up
           /\ verified' = Verified("verify_email", <<email>>, force_verify,
                                   fault, verifier.now, <<out>>, FALSE)

VerifyBulkEmails(emails, force_verify, dns, fault, overlapped) ==
    /\ verifier.calls < MaxBatches
    /\ LET run == Gather(verifier.redis_client, verifier.cache,
                         verifier.cache, emails, force_verify, dns, fault,
                         overlapped, verifier.now)
       IN  /\ verifier' = [verifier EXCEPT !.cache = run.cache,
                                           !.calls = @ + 1]
           /\ lookups' = lookups + LookedUp(run.outcomes)
           /\ verified' = Verified("verify_bulk_emails", emails,
                                   force_verify, fault, verifier.now,
                                   run.outcomes, TRUE)

(* One tick of the store's clock; hashes whose expiry is reached are gone. *)
TickVerify ==
    /\ verifier.now < MaxVerifyTime
    /\ verifier' =
           [verifier EXCEPT
               !.now = @ + 1,
               !.cache = [k \in CacheKeys |->
                             IF verifier.cache[k].present
                                /\ ~Live(verifier.cache[k], verifier.now + 1)
                             THEN NoEntry
                             ELSE verifier.cache[k]]]
    /\ UNCHANGED <<lookups, verified>>

InitVerify ==
    /\ \E client \in BOOLEAN :
           verifier = [redis_client |-> client, cache |-> EmptyCache,
                       now |-> 0, calls |-> 0]
    /\ lookups = 0
    /\ verified = NothingVerified
    /\ CampaignIdle
    /\ GuardIdle
    /\ ProviderIdle

OutsideVerify == UNCHANGED <<campaignVars, guardVars, providerVars>>

Batches == UNION { [1..n -> Emails] : n \in 0..MaxBatch }

NextVerify ==
    \/ (\E email \in Emails, force_verify \in BOOLEAN, dns \in DnsOutcomes,
          fault \in CacheFaults :
           VerifyEmail(email, force_verify, dns, fault)) /\ OutsideVerify
    \/ TickVerify /\ OutsideVerify

SpecVerify == InitVerify /\ [][NextVerify]_vars

NextBulk ==
    \/ (\E emails \in Batches, force_verify \in BOOLEAN,
          fault \in CacheFaults, overlapped \in BOOLEAN :
           \E dns \in [1..Len(emails) -> DnsOutcomes] :
               VerifyBulkEmails(emails, force_verify, dns, fault, overlapped))
       /\ OutsideVerify
    \/ TickVerify /\ OutsideVerify

SpecBulk == InitVerify /\ [][NextBulk]_vars

(***************************************************************************)
(* Properties of the verification engine                                   *)
(***************************************************************************)

(* The status the priority rule "INVALID if the syntax is invalid or there *)
(* is no MX record, else RISKY if disposable, else VALID" gives.           *)
StatusByPriority(result) ==
    IF ~result.is_valid_syntax \/ ~result.has_mx_record THEN INVALID
    ELSE IF result.is_disposable THEN RISKY
    ELSE VALID

(* C16: a verification that did not fail returns INVALID if the syntax is  *)
(* invalid or the domain has no MX record, otherwise RISKY if the domain   *)
(* is disposable, otherwise VALID, whatever the webmail flag is.           *)
StatusFollowsPriority ==
    \A i \in 1..Len(verified.results) :
        LET result == verified.results[i]
        IN  result.status # UNKNOWN
                => result.status = StatusByPriority(result)

(* The step is a call of verify_email. *)
VerifyEmailCall ==
    /\ verifier'.calls = verifier.calls + 1
    /\ verified'.op = "verify_email"

Lowercased(email) == [email EXCEPT !.local = Lower(@)]

(* C17 as stated: of two consecutive non-forced verifications of the same  *)
(* address, the second less than cache_ttl after the first, the first one  *)
(* fresh with status VALID, RISKY or INVALID, exactly one makes an MX      *)
(* lookup and the second returns the cached result.                        *)
TwoCallsOneLookup ==
    [][(/\ VerifyEmailCall
        /\ verified.op = "verify_email"
        /\ ~verified.force_verify
        /\ ~verified'.force_verify
        /\ verified.emails[1].str
        /\ Lowercased(verified'.emails[1]) = Lowercased(verified.emails[1])
        /\ ~verified.cached[1]
        /\ verified.results[1].status \in {VALID, RISKY, INVALID}
        /\ verifier.now - verified.at < CacheTtl)
         => (/\ lookups' = lookups
             /\ verified'.cached[1]
             /\ verified.results[1].is_valid_syntax)]_vars

(* C17 as the code has it: with a store, a verification that is not served *)
(* from the cache and does not fail makes one MX lookup when the syntax is *)
(* valid and none otherwise, and, unless its hset raises, leaves its       *)
(* result under the lowercased address for cache_ttl; a non-forced         *)
(* verification that finds an unexpired entry under the lowercased address *)
(* returns the entry's status and flags without an MX lookup, unless its   *)
(* cache read raises.                                                      *)
Encoded(result) ==
    [status |-> result.status,
     is_valid_syntax |-> Str(result.is_valid_syntax),
     has_mx_record |-> Str(result.has_mx_record),
     is_disposable |-> Str(result.is_disposable),
     is_webmail |-> Str(result.is_webmail),
     domain |-> result.domain]

CachedWhileUnexpired ==
    [][(VerifyEmailCall /\ verifier.redis_client /\ verified'.emails[1].str)
         => LET email == verified'.emails[1]
                key == Lowercased(email)
                result == verified'.results[1]
            IN  /\ (/\ ~verified'.force_verify
                    /\ verified'.fault # "hgetall"
                    /\ Live(verifier.cache[key], verifier.now))
                     => (/\ lookups' = lookups
                         /\ verified'.cached[1]
                         /\ Encoded(result) = verifier.cache[key].data)
                /\ ~verified'.cached[1]
                     => (/\ lookups' - lookups
                              = (IF result.is_valid_syntax THEN 1 ELSE 0)
                         /\ verified'.fault # "hset"
                              => (/\ Live(verifier'.cache[key], verifier.now)
                                  /\ verifier'.cache[key].data
                                        = Encoded(result)
                                  /\ verified'.fault # "expire"
                                       => verifier'.cache[key].expire_at
                                             = verifier.now + CacheTtl))]_vars

(* A verification was served from an entry stored for the other spelling   *)
(* of the address.                                                         *)
ServedFromCache ==
    /\ verified.op = "verify_email"
    /\ verified.cached[1]
    /\ verified.emails[1].local = "User"
    /\ verified.results[1].status = VALID
    /\ verified.at >= 1
    /\ lookups = 1

(* C18: a verification of a syntactically invalid address returns INVALID  *)
(* with no disposable, webmail or MX flag and no MX lookup, and stores the *)
(* result in the cache when there is a store and hset does not raise.      *)
SyntaxInvalid(email) ==
    email.str /\ (email.local \notin LocalParts \/ email.domain = << >>)

BulkIsolatesItems ==
    verified.op = "verify_bulk_emails"
        => /\ verified.total = Len(verified.emails)
           /\ Len(verified.results) = Len(verified.emails)
           /\ verified.valid + verified.invalid + verified.risky
                  + verified.unknown = Len(verified.emails)
           /\ \A i \in 1..Len(verified.emails) :
                  LET email == verified.emails[i]
                      result == verified.results[i]
                  IN  /\ result.email = email
                      /\ ~email.str => result.status = UNKNOWN
                      /\ SyntaxInvalid(email) => result.status = INVALID
                      /\ (email.str /\ ~SyntaxInvalid(email))
                           => /\ result.is_valid_syntax
                              /\ result.domain = email.domain
                              /\ result.is_disposable
                                    = _is_disposable_email(email.domain)
                              /\ result.is_webmail
                                    = _is_webmail_email(email.domain)
                              /\ result.status = _determine_status(result)

(* A batch whose first address raised and whose second was found VALID.    *)
BulkContinuedAfterFailure ==
    /\ verified.op = "verify_bulk_emails"
    /\ Len(verified.emails) = 2
    /\ verified.results[1].status = UNKNOWN
    /\ verified.results[2].status = VALID
    /\ verified.unknown = 1
    /\ verified.valid = 1

(***************************************************************************)
(* Provider selection, src/services/email_service.py.                      *)
(*                                                                         *)
(* email_service is the EMAIL_SERVICE setting as read from the             *)
(* environment; gmail_service is set when the Gmail client was built.      *)
(* __init__ raises when the setting is "gmail" and the client cannot be    *)
(* built, and builds no client when the setting is "resend".               *)
(***************************************************************************)
MaxRecipients == 50

(* ---- EmailProvider, lines 15-18; EmailType, lines 20-23 ---- *)
GMAIL == "gmail"
RESEND == "resend"
HYBRID == "hybrid"
EmailProvider == {GMAIL, RESEND, HYBRID}

TRANSACTIONAL == "transactional"
BULK == "bulk"
AUTORESPONSE == "autoresponse"
EmailType == {TRANSACTIONAL, BULK, AUTORESPONSE}

(* Values handed over as email_type: the members and one other value *)
EmailTypes == EmailType \cup {"other"}

(* Settings: the members and one value that is no member *)
Settings == EmailProvider \cup {"smtp"}

EmailServices ==
    { service \in [email_service : Settings, gmail_service : BOOLEAN] :
          /\ service.email_service = GMAIL => service.gmail_service
          /\ service.email_service \notin {GMAIL, HYBRID}
                => ~service.gmail_service }

ManyRecipientsFromTen(recipient_count) == recipient_count >= 10
ManyRecipients(recipient_count) == recipient_count > 10

(* _choose_provider, lines 53-68: the provider, or "raise" for ValueError *)
_choose_provider(self, email_type, recipient_count) ==
    IF self.email_service = GMAIL THEN GMAIL
    ELSE IF self.email_service = RESEND THEN RESEND
    ELSE IF self.email_service = HYBRID
    THEN IF email_type \in {TRANSACTIONAL, AUTORESPONSE}
         THEN IF self.gmail_service THEN GMAIL ELSE RESEND
         ELSE IF email_type = BULK \/ ManyRecipients(recipient_count)
         THEN RESEND
         ELSE IF self.gmail_service THEN GMAIL ELSE RESEND
    ELSE "raise"

Chosen(email_type, recipient_count, provider) ==
    [called |-> TRUE, email_type |-> email_type,
     recipient_count |-> recipient_count, provider |-> provider]

NotChosen == [called |-> FALSE]

ChooseProvider(email_type, recipient_count) ==
    /\ chosen' = Chosen(email_type, recipient_count,
                        _choose_provider(email_service, email_type,
                                         recipient_count))
    /\ UNCHANGED <<email_service, send_call>>

InitProvider ==
    /\ email_service \in EmailServices
    /\ chosen = NotChosen
    /\ send_call = << >>
    /\ CampaignIdle
    /\ GuardIdle
    /\ VerifyIdle

NextProvider ==
    \E email_type \in EmailTypes, recipient_count \in 0..MaxRecipients :
        /\ ChooseProvider(email_type, recipient_count)
        /\ UNCHANGED <<campaignVars, guardVars, verifyVars>>

SpecProvider == InitProvider /\ [][NextProvider]_vars

(* C20: for every setting among GMAIL, RESEND and HYBRID, _choose_provider *)
(* returns GMAIL exactly when the setting is GMAIL, or the setting is      *)
(* HYBRID, the Gmail client is available and the email is TRANSACTIONAL    *)
(* or AUTORESPONSE or is not BULK and has at most 10 recipients; it        *)
(* returns RESEND otherwise.  HYBRID, BULK and 50 recipients give RESEND;  *)
(* HYBRID, TRANSACTIONAL, 1 recipient and a Gmail client give GMAIL.       *)
PrimaryChosen(self, email_type, recipient_count) ==
    \/ self.email_service = GMAIL
    \/ /\ self.email_service = HYBRID
       /\ self.gmail_service
       /\ \/ email_type \in {TRANSACTIONAL, AUTORESPONSE}
          \/ email_type # BULK /\ recipient_count <= 10

ProviderByTable ==
    (chosen.called /\ email_service.email_service \in EmailProvider)
        => /\ chosen.provider \in {GMAIL, RESEND}
           /\ chosen.provider = GMAIL
                 <=> PrimaryChosen(email_service, chosen.email_type,
                                   chosen.recipient_count)
           /\ (/\ email_service.email_service = HYBRID
               /\ chosen.email_type = BULK
               /\ chosen.recipient_count = 50) => chosen.provider = RESEND
           /\ (/\ email_service.email_service = HYBRID
               /\ chosen.email_type = TRANSACTIONAL
               /\ chosen.recipient_count = 1
               /\ email_service.gmail_service) => chosen.provider = GMAIL

(* HYBRID with a Gmail client chose RESEND for a BULK email to 50          *)
(* recipients.                                                             *)
BulkToFiftyOnHybrid ==
    /\ chosen.called
    /\ email_service = [email_service |-> HYBRID, gmail_service |-> TRUE]
    /\ chosen.email_type = BULK
    /\ chosen.recipient_count = 50
    /\ chosen.provider = RESEND

(***************************************************************************)
(* EmailService.send_email (src/services/email_service.py, lines 70-205)   *)
(* and GmailService.send_email (src/gmail_service.py, lines 75-105)        *)
(***************************************************************************)

(* What a call comes to: a record it returns, or an exception it raises *)
Raise == [raised |-> TRUE]
Success(provider) ==
    [status |-> "success", message_id |-> "id", provider |-> provider]
Error(provider) ==
    [status |-> "error", message |-> "text", provider |-> provider]

(* What the provider's API does with a request: it takes the message and   *)
(* answers with its id, answers without an id, or raises.                  *)
ApiOutcomes == {"sent", "malformed", "raises"}

(* What is handed over as template_data: nothing, data the content renders *)
(* with, data the rendering fails on.                                      *)
TemplateData == {"none", "renders", "fails"}

(* _render_template, lines 268-276: the rendering, or the string as given  *)
(* when rendering raises                                                   *)
_render_template(template_str, data) ==
    IF data = "renders" THEN "rendered" ELSE template_str

(* GmailService.send_email, src/gmail_service.py lines 75-105: the record  *)
(* without the provider, which _send_via_gmail adds                        *)
GmailService_send_email(api) ==
    IF api = "sent"
    THEN [status |-> "success", message_id |-> "id"]
    ELSE [status |-> "error", message |-> "text"]

(* _send_via_gmail, lines 126-159 *)
_send_via_gmail(self, api) ==
    IF ~self.gmail_service
    THEN Raise
    ELSE LET result == GmailService_send_email(api)
         IN IF result.status = "success"
            THEN [status |-> "success", message_id |-> result.message_id,
                  provider |-> "gmail"]
            ELSE [status |-> "error", message |-> result.message,
                  provider |-> "gmail"]

(* _send_via_resend, lines 161-205: resend.Emails.send and result["id"]    *)
(* are inside the try                                                      *)
_send_via_resend(api) ==
    IF api = "sent" THEN Success("resend") ELSE Error("resend")

Uncaught(outcome, provider) == outcome

(* lines 118-124: except Exception around the body of send_email *)
Caught(outcome, provider) ==
    IF outcome = Raise THEN Error(provider) ELSE outcome

(* send_email, lines 97-124; provider is "unknown" in the handler when the *)
(* exception came before the provider was chosen                           *)
send_email(self, email_type, template_data, gmail_api, resend_api) ==
    LET content == IF template_data # "none"
                   THEN _render_template("content", template_data)
                   ELSE "content"
        provider == _choose_provider(self, email_type, 1)
    IN IF provider = "raise"
       THEN Caught(Raise, "unknown")
       ELSE IF provider = GMAIL
       THEN Caught(_send_via_gmail(self, gmail_api), provider)
       ELSE Caught(_send_via_resend(resend_api), provider)

RetryOnAlternate(provider, result) ==
    IF result.status = "error"
    THEN <<IF provider = GMAIL THEN RESEND ELSE GMAIL>>
    ELSE << >>

(* lines 109-116: what the chosen provider gave is returned as it is; no   *)
(* provider is called after it                                             *)
CallsAfter(provider, result) == << >>

(* The provider APIs one send_email calls, in order: GmailService.         *)
(* send_email at line 141, reached only with a Gmail client (136-137),     *)
(* resend.Emails.send at line 193.                                         *)
api_calls(self, email_type, gmail_api, resend_api) ==
    LET provider == _choose_provider(self, email_type, 1)
    IN IF provider = "raise"
       THEN << >>
       ELSE IF provider = GMAIL
       THEN IF self.gmail_service
            THEN <<GMAIL>>
                 \o CallsAfter(provider, _send_via_gmail(self, gmail_api))
            ELSE << >>
       ELSE <<RESEND>> \o CallsAfter(provider, _send_via_resend(resend_api))

NotSent == [called |-> FALSE]

SendEmail(email_type, template_data, gmail_api, resend_api) ==
    /\ send_call' = [called |-> TRUE,
                email_type |-> email_type,
                template_data |-> template_data,
                gmail_api |-> gmail_api,
                resend_api |-> resend_api,
                result |-> send_email(email_service, email_type,
                                      template_data, gmail_api, resend_api),
                apis |-> api_calls(email_service, email_type, gmail_api,
                                   resend_api)]
    /\ UNCHANGED <<email_service, chosen>>

InitSend ==
    /\ email_service \in EmailServices
    /\ chosen = << >>
    /\ send_call = NotSent
    /\ CampaignIdle
    /\ GuardIdle
    /\ VerifyIdle

NextSend ==
    \E email_type \in EmailTypes, template_data \in TemplateData,
       gmail_api \in ApiOutcomes, resend_api \in ApiOutcomes :
        /\ SendEmail(email_type, template_data, gmail_api, resend_api)
        /\ UNCHANGED <<campaignVars, guardVars, verifyVars>>

SpecSend == InitSend /\ [][NextSend]_vars

(* C21: send_email never raises: whatever the configuration, the template  *)
(* data and the provider's API do, it returns a record whose status is     *)
(* "success" or "error", with a provider, with a message_id when the       *)
(* status is "success" and a message when it is "error".                   *)
SendEmailReturnsRecord ==
    send_call.called
        => /\ send_call.result # Raise
           /\ "status" \in DOMAIN send_call.result
           /\ "provider" \in DOMAIN send_call.result
           /\ send_call.result.status \in {"success", "error"}
           /\ send_call.result.status = "success"
                  => "message_id" \in DOMAIN send_call.result
           /\ send_call.result.status = "error"
                  => "message" \in DOMAIN send_call.result

ErrorBeforeProviderChosen ==
    /\ send_call.called
    /\ email_service.email_service = "smtp"
    /\ send_call.result = Error("unknown")

(***************************************************************************)
(* Further properties of the campaign state machine, the delivery worker   *)
(* and the EmailLog audit trail                                            *)
(***************************************************************************)

(* C22: a create request whose template does not exist, whose upload does  *)
(* not exist or is unprocessed, or whose upload has no valid row is        *)
(* rejected: no campaign is created and no worker is started.              *)
RejectedCreateLeavesNothing ==
    [][(~created /\ response'.op = "create")
         => \A t \in BOOLEAN, u \in UploadKinds, rs \in RowSeqs :
                (/\ create_campaign(t, u, rs)
                 /\ \/ ~t
                    \/ u \in {"missing", "unprocessed"}
                    \/ u = "rows" /\ \A i \in 1..Len(rs) : ~rs[i].valid)
                  => (/\ created' = FALSE
                      /\ db' = NoCampaign
                      /\ workers' = workers
                      /\ launched' = launched
                      /\ response'.code \in {400, 404})]_vars

CreateRejected ==
    /\ response = Respond("create", 400)
    /\ ~created
    /\ db = NoCampaign
    /\ LiveWorkers = 0

(* C23: no step modifies or removes an existing EmailLog: the logs after a *)
(* step begin with the logs before it.                                     *)
LogsAppendOnly ==
    [][/\ Len(email_logs') >= Len(email_logs)
       /\ SubSeq(email_logs', 1, Len(email_logs)) = email_logs]_vars

(* C24: every change of the status of an existing campaign is one of       *)
(* DRAFT->SENDING, SENDING->PAUSED, PAUSED->SENDING, SENDING->COMPLETED,   *)
(* SENDING->FAILED, and is made by the worker, by pause or by resume.      *)
SpecifiedTransitions ==
    { <<DRAFT, SENDING>>, <<SENDING, PAUSED>>, <<PAUSED, SENDING>>,
      <<SENDING, COMPLETED>>, <<SENDING, FAILED>> }

StatusChangesAsSpecified ==
    [][(db # NoCampaign /\ db' # NoCampaign /\ db'.status # db.status)
         => (/\ <<db.status, db'.status>> \in SpecifiedTransitions
             /\ \/ response' = response
                \/ response'.op \in {"pause", "resume"})]_vars

(* C25: the worker counts every recipient whose template did not render    *)
(* in error_count (here for the first worker of a campaign, whose counters *)
(* start at 0).                                                            *)
RenderFailures(wk) ==
    Cardinality({i \in 1..Len(wk.attempted) :
                     ~wk.rows[wk.attempted[i]].renders})

RenderFailureCounted ==
    launched = 1
        => \A wk \in BagToSet(workers) : wk.error_count >= RenderFailures(wk)

(* C26: for a campaign that has had one worker, the number of SENT         *)
(* EmailLogs equals sent_count and the number of FAILED EmailLogs equals   *)
(* error_count in every persisted state.                                   *)
LogCount(status) ==
    Cardinality({i \in 1..Len(email_logs) : email_logs[i].status = status})

LogsMatchCounters ==
    (db # NoCampaign /\ launched <= 1)
        => /\ LogCount(SENT) = db.sent_count
           /\ LogCount(FAILED) = db.error_count

(* C27: a worker leaves its loop only when the valid rows are exhausted or *)
(* its status check meets a stop status, so a row that does not render     *)
(* does not end the run; and a send that returns an error or raises leaves *)
(* the campaign status as it is and the worker alive.                      *)
RecipientFailureContinues ==
    /\ [](\A wk \in BagToSet(workers) :
             wk.pc = "finish"
                 => \/ Len(wk.attempted) = Len(ValidRows(wk.rows))
                    \/ StopStatus(wk.status))
    /\ [][\A wk \in BagToSet(workers), o \in {"error", "raise"} :
             (WorkerSend(wk, o) /\ db # NoCampaign)
                 => (db'.status = db.status /\ LiveWorkers' = LiveWorkers)]_vars

SendingAfterFailure ==
    /\ db # NoCampaign
    /\ db.status = SENDING
    /\ db.error_count = 1
    /\ \E wk \in BagToSet(workers) :
           /\ wk.pc = "sending"
           /\ Len(wk.attempted) = 2
           /\ wk.error_count = 1

(* C28: when a commit of a worker's iteration raises, the persisted       *)
(* status of the campaign becomes FAILED.                                  *)
FailureSetsFailed ==
    [][\A wk \in BagToSet(workers), p \in BOOLEAN :
          (wk.pc = "sending" /\ WorkerFail(wk, p) /\ db # NoCampaign)
              => db'.status = FAILED]_vars

(* C29: the rows a worker takes up are valid rows, in the order of the     *)
(* upload and none left out; every EmailLog is for a valid row; the logs   *)
(* of a campaign's only worker are in the order of the rows.               *)
Increasing(numbers) ==
    \A i, j \in 1..Len(numbers) : i < j => numbers[i] < numbers[j]

ValidRowsInOrder ==
    /\ \A wk \in BagToSet(workers) :
           /\ \A i \in 1..Len(wk.attempted) : wk.rows[wk.attempted[i]].valid
           /\ Increasing(wk.attempted)
           /\ \A i \in 1..Len(wk.attempted), n \in 1..Len(wk.rows) :
                  (wk.rows[n].valid /\ n < wk.attempted[i])
                      => \E j \in 1..Len(wk.attempted) : wk.attempted[j] = n
           /\ \A i \in 1..Len(wk.pending) :
                  wk.rows[wk.pending[i].to_email].valid
           /\ launched = 1
                  => Increasing([i \in 1..Len(email_logs \o wk.pending) |->
                                    (email_logs \o wk.pending)[i].to_email])
    /\ \A i \in 1..Len(email_logs) : rows[email_logs[i].to_email].valid

InvalidRowPassedOver ==
    /\ Len(rows) = 2
    /\ ~rows[1].valid
    /\ email_logs = <<EmailLog(2, SENT)>>
    /\ \E wk \in BagToSet(workers) : wk.attempted = <<2>>

(* C30: when a send returns while the last request was a successful pause  *)
(* and the campaign is PAUSED, the worker does not start another send.     *)
SendingWorkers ==
    LET S == {wk \in BagToSet(workers) : wk.pc = "sending"}
    IN BagCardinality([wk \in S |-> CopiesIn(wk, workers)])

StopsAfterPause ==
    [][(/\ response = Respond("pause", 200)
        /\ db # NoCampaign
        /\ db.status = PAUSED
        /\ \E wk \in BagToSet(workers), o \in SendOutcomes : WorkerSend(wk, o))
         => SendingWorkers' < SendingWorkers]_vars

(* C31: every worker, one relaunched by resume included, takes up the      *)
(* first valid row of the upload first and, unless its status check meets  *)
(* a stop status, leaves its loop only after taking up every valid row of  *)
(* the upload, whether or not the row has an EmailLog already.             *)
ValidRowNumbers(rs) == [k \in 1..Len(ValidRows(rs)) |-> RowNumber(rs, k)]

ResumeStartsOver ==
    \A wk \in BagToSet(workers) :
        /\ Len(wk.attempted) >= 1
               => wk.attempted[1] = ValidRowNumbers(rows)[1]
        /\ (wk.pc = "finish" /\ ~StopStatus(wk.status))
               => wk.attempted = ValidRowNumbers(rows)

LoggedRowSentAgain ==
    /\ launched = 2
    /\ LiveWorkers = 1
    /\ email_logs = <<EmailLog(1, SENT)>>
    /\ \E wk \in BagToSet(workers) :
           wk.pc = "sending" /\ wk.attempted = <<1>>

(* C38: when only the create request has been made (no pause, resume,      *)
(* update or delete) and the campaign is COMPLETED, every recipient is     *)
(* counted: sent_count + error_count = total_emails.                       *)
CompletedCountsAll ==
    (/\ response = Respond("create", 200)
     /\ db # NoCampaign
     /\ db.status = COMPLETED)
        => db.sent_count + db.error_count = db.total_emails

(***************************************************************************)
(* The run of a campaign that is created and then left alone: no pause,    *)
(* resume, update or delete.  The event loop runs every task it holds, and *)
(* every call a task awaits returns or raises, so a task that can take its *)
(* next step takes it or fails.                                            *)
(***************************************************************************)
WorkerStep ==
    \/ \E w \in BagToSet(workers) : WorkerStart(w)
    \/ \E w \in BagToSet(workers), o \in SendOutcomes : WorkerSend(w, o)
    \/ \E w \in BagToSet(workers) : WorkerFinish(w)

NextRun ==
    \/ (\E t \in BOOLEAN, u \in UploadKinds, rs \in RowSeqs :
           create_campaign(t, u, rs)) /\ Elsewhere
    \/ (\E w \in BagToSet(workers) : WorkerStart(w)) /\ Elsewhere
    \/ (\E w \in BagToSet(workers), o \in SendOutcomes : WorkerSend(w, o))
           /\ Elsewhere
    \/ (\E w \in BagToSet(workers) : WorkerFinish(w)) /\ Elsewhere
    \/ (\E w \in BagToSet(workers), p \in BOOLEAN : WorkerFail(w, p))
           /\ Elsewhere

SpecRun == Init /\ [][NextRun]_vars /\ WF_vars(WorkerStep /\ Elsewhere)

(* C39: a campaign that is SENDING and is left alone eventually is         *)
(* COMPLETED or FAILED, and eventually has no worker.                      *)
SendingSettles ==
    (db # NoCampaign /\ db.status = SENDING)
        ~> (/\ db # NoCampaign
            /\ db.status \in {COMPLETED, FAILED}
            /\ LiveWorkers = 0)

(***************************************************************************)
(* Further properties of the verification engine                           *)
(***************************************************************************)

(* C40: a bulk verification that reads the cache (a store is configured,   *)
(* force_verify is off, no store operation fails) performs at most one MX  *)
(* lookup for each address of the batch, however often the batch names it. *)
BatchKeys ==
    { CacheKey(verified.emails[i]) :
          i \in {j \in 1..Len(verified.emails) : verified.emails[j].str} }

OneLookupPerAddress ==
    (/\ verified.op = "verify_bulk_emails"
     /\ verifier.redis_client
     /\ ~verified.force_verify
     /\ verified.fault = "none")
        => lookups <= Cardinality(BatchKeys)

(***************************************************************************)
(* Further properties of EmailService.send_email                           *)
(***************************************************************************)

(* The provider a configuration prefers for an email type *)
Preferred(setting, email_type) ==
    IF setting = HYBRID
    THEN IF email_type = BULK THEN RESEND ELSE GMAIL
    ELSE setting

(* C37: one send_email calls at most one provider API, at most once; the   *)
(* result names the provider that was called, and is an error naming it    *)
(* when that provider's API failed; a provider other than the preferred    *)
(* one is called only when the preferred one is Gmail and the Gmail client *)
(* was not initialized.                                                    *)
OneProviderNoFallback ==
    send_call.called
        => /\ Len(send_call.apis) <= 1
           /\ send_call.apis # << >>
                  => /\ send_call.result.provider = send_call.apis[1]
                     /\ (\/ send_call.apis[1] = GMAIL
                            /\ send_call.gmail_api # "sent"
                         \/ send_call.apis[1] = RESEND
                            /\ send_call.resend_api # "sent")
                            => send_call.result.status = "error"
                     /\ send_call.apis[1]
                            # Preferred(email_service.email_service,
                                        send_call.email_type)
                            => /\ Preferred(email_service.email_service,
                                            send_call.email_type) = GMAIL
                               /\ ~email_service.gmail_service

GmailFailureNotRetried ==
    /\ send_call.called
    /\ email_service.email_service = HYBRID
    /\ email_service.gmail_service
    /\ send_call.email_type = TRANSACTIONAL
    /\ send_call.gmail_api = "raises"
    /\ send_call.resend_api = "sent"
    /\ send_call.apis = <<GMAIL>>
    /\ send_call.result = Error(GMAIL)

(***************************************************************************)
(* Further properties of the abuse detector                                *)
(***************************************************************************)

(* C34: a check for an IP that is not listed as malicious, made without an *)
(* email address for a form submission, flags and blocks exactly when the  *)
(* IP's frequency count, this action included, is above                    *)
(* high_frequency_submissions.                                             *)
FrequencyFlagsAboveT2 ==
    [][\A ip \in Ips :
          (/\ redis_client
           /\ ip \notin redis.malicious_ip
           /\ SuspiciousActivity(ip, FALSE, "form_submission", "none"))
             => LET above ==
                        redis'.ip_frequency[<<ip, "form_submission">>]
                            > suspicious_thresholds.high_frequency_submissions
                IN /\ guard'.abuse.suspicious <=> above
                   /\ guard'.abuse.blocked <=> above]_vars

(* C35: when a login from an IP that is not listed as malicious is blocked *)
(* by the abuse detector, more than failed_attempts_limit authentication   *)
(* attempts have failed before it; the requests handled before it bound    *)
(* that number.                                                            *)
FailedAuthFlagsAboveT3 ==
    (/\ guard.op = "login"
     /\ guard.abuse.called
     /\ guard.abuse.blocked
     /\ guard.ip \notin redis.malicious_ip)
        => calls - 1 > suspicious_thresholds.failed_attempts_limit

(***************************************************************************)
(* Further properties of the rate limiter and the blocklist                *)
(***************************************************************************)

(* C32: whatever the interleaving of concurrent is_rate_limited calls, the *)
(* counter of a key never exceeds max_requests, and no more than           *)
(* max_requests calls counted in it were allowed.                          *)
AtMostMaxRequests ==
    \A k \in RateKeys :
        /\ redis.rate[k].count <= rate_limits[k[1]].requests
        /\ Len(redis.rate[k].allowed_at) <= rate_limits[k[1]].requests

(* C33: every rate counter in the store has an expiry, and one that lies   *)
(* ahead, whatever the interleaving of the calls and wherever a call       *)
(* fails.                                                                  *)
EveryCounterExpires ==
    \A k \in RateKeys :
        redis.rate[k].count > 0
            => /\ redis.rate[k].expire_at # NoTtl
               /\ redis.rate[k].expire_at > now

CounterOfFailedPipeline ==
    \E c \in Callers :
        /\ in_flight[c].pc = "idle"
        /\ in_flight[c].fail = "pipeline_applied"
        /\ redis.rate[<<"form_submission", in_flight[c].ip>>].count = 1
        /\ redis.rate[<<"form_submission", in_flight[c].ip>>].allowed_at = << >>

(* C36: a check, made while the store answers, of an IP that is listed as  *)
(* malicious or has a block of block_ip_temporarily that has not run out   *)
(* returns suspicious and blocked.                                         *)
BlockedIpIsBlocked ==
    [][\A ip \in Ips, email \in BOOLEAN, action_type \in ActionTypes :
          (/\ redis_client
           /\ \/ ip \in redis.malicious_ip
              \/ redis.blocked_ip[ip] # NotBlocked
           /\ SuspiciousActivity(ip, email, action_type, "none"))
             => (guard'.abuse.suspicious /\ guard'.abuse.blocked)]_vars

====
